---- MODULE Spec2Model ----
(***************************************************************************)
(* Model of Ladruno core/model.py: class Model (discovery of run folders,  *)
(* job-name derivation, sequential submission).                            *)
(*                                                                         *)
(* Strings are sequences of code points, so that Python's string order     *)
(* (code point by code point) and str.join are computed, not assumed.      *)
(* A path is the sequence of its components below "/"; <<>> is "/".        *)
(* The filesystem holds plain directories and plain marker files (no       *)
(* symbolic links), so resolve() leaves a discovered path unchanged.        *)
(***************************************************************************)
EXTENDS Integers, Sequences, FiniteSets, TLC

VARIABLES fs, path, pc, tcl_files, runs, job_name, job_ids, calls, ret, exc

vars == <<fs, path, pc, tcl_files, runs, job_name, job_ids, calls, ret, exc>>

\* ------------------------------ bounds -------------------------------- \*

\* largest number of marker files on the filesystem
MaxMarkers == 3

\* ------------------------------ strings ------------------------------- \*

\* "main.tcl", the marker name passed by __init__
tcl_name == <<109, 97, 105, 110, 46, 116, 99, 108>>

\* "_", the separator of _auto_job_name
Underscore == <<95>>

\* directory names used on the modelled filesystem
Dir_r == <<114>>
Dir_s == <<115>>
Dir_a == <<97>>
Dir_b == <<98>>
Dir_a_b == <<97, 95, 98>>
Dir_a_dash_b == <<97, 45, 98>>

\* every directory that may hold a marker file
Dirs ==
    { <<>>, <<Dir_r>>, <<Dir_r, Dir_a>>, <<Dir_r, Dir_a, Dir_b>>,
      <<Dir_r, Dir_a_b>>, <<Dir_r, Dir_a_dash_b>>, <<Dir_s>> }

\* the paths a caller hands to Model(path), already resolved
Roots == { <<>>, <<Dir_r>>, <<Dir_r, Dir_a>> }

\* values the caller passes as job_name: None, "" and a non-empty name
NoJobName == [given |-> FALSE, val |-> <<>>]
JobNameArgs ==
    { NoJobName, [given |-> TRUE, val |-> <<>>], [given |-> TRUE, val |-> <<106>>] }

\* what Run.submit hands back: a scheduler job id, or an exception
JobIds == { "J1", "J2" }
SubmitErrors == { "E1", "E2" }

\* ------------------------- str and Path order -------------------------- \*

\* Python str.__lt__: by code point, a proper prefix first
RECURSIVE StrLess(_, _)
StrLess(s, t) ==
    IF t = <<>> THEN FALSE
    ELSE IF s = <<>> THEN TRUE
    ELSE IF Head(s) # Head(t) THEN Head(s) < Head(t)
    ELSE StrLess(Tail(s), Tail(t))

\* PurePath.__lt__: the lists of components compared element by element
RECURSIVE PathLess(_, _)
PathLess(p, q) ==
    IF q = <<>> THEN FALSE
    ELSE IF p = <<>> THEN TRUE
    ELSE IF Head(p) # Head(q) THEN StrLess(Head(p), Head(q))
    ELSE PathLess(Tail(p), Tail(q))

\* sorted(): insertion of each enumerated element into the sorted prefix
RECURSIVE Insert(_, _)
Insert(x, s) ==
    IF s = <<>> THEN <<x>>
    ELSE IF PathLess(x, Head(s)) THEN <<x>> \o s
    ELSE <<Head(s)>> \o Insert(x, Tail(s))

\* the enumeration order kept as it came
unsorted(s) == s

RECURSIVE sorted(_)
sorted(s) ==
    IF s = <<>> THEN <<>> ELSE Insert(s[Len(s)], sorted(SubSeq(s, 1, Len(s) - 1)))

\* ------------------------------ pathlib -------------------------------- \*

IsUnder(p, root) ==
    Len(root) <= Len(p) /\ SubSeq(p, 1, Len(root)) = root

\* Path.parent of a path with at least one component
parent(p) == SubSeq(p, 1, Len(p) - 1)

\* Path.name: the last component, "" for "/"
name_of(p) == IF p = <<>> THEN <<>> ELSE p[Len(p)]

\* Path.relative_to(root).parts
relative_parts(p, root) == SubSeq(p, Len(root) + 1, Len(p))

\* sep.join(parts)
RECURSIVE join(_, _)
join(sep, parts) ==
    IF parts = <<>> THEN <<>>
    ELSE IF Len(parts) = 1 THEN parts[1]
    ELSE parts[1] \o sep \o join(sep, Tail(parts))

\* a search of the root's direct children only
glob_children(root) ==
    { d \o <<tcl_name>> : d \in { e \in fs : IsUnder(e, root) /\ Len(e) = Len(root) + 1 } }

\* the marker files Path.rglob(tcl_name) yields under root, as a set
rglob(root) == { d \o <<tcl_name>> : d \in { e \in fs : IsUnder(e, root) } }

\* the orders in which the filesystem may enumerate a set of paths
Enumerations(S) ==
    { e \in [1..Cardinality(S) -> S] : \A x \in S : \E i \in DOMAIN e : e[i] = x }

\* ----------------------------- class Model ----------------------------- \*

\* Run(folder_path=str(run_folder), ...): a Run is its folder
_make_run(run_folder) == run_folder

\* [self._make_run(p.parent) for p in tcl_files]
RunsOf(files) == [i \in DOMAIN files |-> _make_run(parent(files[i]))]

\* discovery that always searches the subtree
_collect_runs_always_search(enum) == RunsOf(sorted(enum))

\* _collect_runs, given the order in which rglob enumerated the matches
_collect_runs(enum) ==
    IF path \in fs THEN <<_make_run(path)>>
    ELSE RunsOf(sorted(enum))

\* the name of the run folder alone
_auto_job_name_last(run) == name_of(run)

\* name or self.path.name
_auto_job_name(run) ==
    LET name == join(Underscore, relative_parts(run, path))
    IN IF name # <<>> THEN name ELSE name_of(path)

\* job_name if job_name is not None else self._auto_job_name(run)
resolved_job_name_not_none(arg, run) ==
    IF arg.given THEN arg.val ELSE _auto_job_name(run)

\* job_name or self._auto_job_name(run)
resolved_job_name(arg, run) ==
    IF arg.given /\ arg.val # <<>> THEN arg.val ELSE _auto_job_name(run)

\* a constructor that never raises
no_runs_ignored(rs) == FALSE

\* if not self.runs: raise FileNotFoundError
no_runs(rs) == rs = <<>>

TypeOK ==
    /\ fs \subseteq Dirs
    /\ path \in Roots
    /\ pc \in { "new", "failed", "ready", "submitting", "returned", "raised" }
    /\ job_name \in JobNameArgs

Init ==
    /\ fs \in { S \in SUBSET Dirs : Cardinality(S) <= MaxMarkers }
    /\ path \in Roots
    /\ pc = "new"
    /\ tcl_files = <<>>
    /\ runs = <<>>
    /\ job_name = NoJobName
    /\ job_ids = <<>>
    /\ calls = <<>>
    /\ ret = <<>>
    /\ exc = "none"

\* Model.__init__
Construct ==
    /\ pc = "new"
    /\ \E enum \in Enumerations(rglob(path)) :
          /\ tcl_files' = (IF path \in fs THEN <<>> ELSE enum)
          /\ runs' = _collect_runs(enum)
    /\ IF no_runs(runs')
       THEN pc' = "failed" /\ exc' = "FileNotFoundError"
       ELSE pc' = "ready" /\ exc' = exc
    /\ UNCHANGED <<fs, path, job_name, job_ids, calls, ret>>

\* Model.submit entered: job_ids = []
SubmitCall ==
    /\ pc \in { "ready", "returned", "raised" }
    /\ \E arg \in JobNameArgs : job_name' = arg
    /\ pc' = "submitting"
    /\ job_ids' = <<>>
    /\ calls' = <<>>
    /\ ret' = <<>>
    /\ exc' = "none"
    /\ UNCHANGED <<fs, path, tcl_files, runs>>

\* job_ids.insert(0, job_id)
prepend(ids, job_id) == <<job_id>> \o ids

\* job_ids.append(job_id)
append(ids, job_id) == Append(ids, job_id)

\* run.submit returned job_id
RunSubmitReturns(run, resolved, job_id) ==
    /\ calls' = Append(calls, [run |-> run, job_name |-> resolved, ok |-> TRUE, val |-> job_id])
    /\ job_ids' = append(job_ids, job_id)
    /\ UNCHANGED <<pc, ret, exc>>

\* run.submit raised err, caught: the loop goes on without an identifier
RunSubmitRaises_caught(run, resolved, err) ==
    /\ calls' = Append(calls, [run |-> run, job_name |-> resolved, ok |-> FALSE, val |-> err])
    /\ UNCHANGED <<job_ids, pc, ret, exc>>

\* run.submit raised err: nothing in Model.submit catches it
RunSubmitRaises(run, resolved, err) ==
    /\ calls' = Append(calls, [run |-> run, job_name |-> resolved, ok |-> FALSE, val |-> err])
    /\ job_ids' = <<>>
    /\ pc' = "raised"
    /\ exc' = err
    /\ UNCHANGED ret

\* one iteration of the loop over self.runs
SubmitRun ==
    /\ pc = "submitting"
    /\ Len(calls) < Len(runs)
    /\ LET run == runs[Len(calls) + 1]
           resolved == resolved_job_name(job_name, run)
       IN \/ \E job_id \in JobIds : RunSubmitReturns(run, resolved, job_id)
          \/ \E err \in SubmitErrors : RunSubmitRaises(run, resolved, err)
    /\ UNCHANGED <<fs, path, tcl_files, runs, job_name>>

\* the loop is exhausted: return job_ids
SubmitReturn ==
    /\ pc = "submitting"
    /\ Len(calls) = Len(runs)
    /\ pc' = "returned"
    /\ ret' = job_ids
    /\ UNCHANGED <<fs, path, tcl_files, runs, job_name, job_ids, calls, exc>>

Next == Construct \/ SubmitCall \/ SubmitRun \/ SubmitReturn

Spec == Init /\ [][Next]_vars

\* ------------------------------ properties ----------------------------- \*

Constructed == pc \in { "ready", "submitting", "returned", "raised" }

\* the directories at or below the root that hold a marker file
MarkedBelow == { d \in fs : IsUnder(d, path) }

RunSet == { runs[i] : i \in DOMAIN runs }

FailedCalls == { i \in DOMAIN calls : ~calls[i].ok }

\* the caller's job_name counts as an override for `or`
Overridden == job_name.given /\ job_name.val # <<>>

\* C1: when the j-th unit's submission fails, submit raises that very
\* failure, hands no identifier sequence to the caller, submits no unit
\* after j, and units 1..j-1 were each submitted once, successfully, with
\* nothing but submissions sent to the scheduler.
C1_FailureAborts ==
    FailedCalls # {} =>
        LET j == Len(calls)
        IN /\ FailedCalls = { j }
           /\ pc = "raised"
           /\ exc = calls[j].val
           /\ ret = <<>>
           /\ job_ids = <<>>
           /\ j <= Len(runs)
           /\ \A i \in 1..j : calls[i].run = runs[i]

C1_Witness ==
    /\ pc = "raised"
    /\ Len(calls) = 2
    /\ Len(runs) = 3
    /\ calls[1].ok
    /\ exc = "E2"

\* C2: when every submission succeeds, each unit is submitted once, one
\* after another in discovery order, and the returned sequence has one
\* identifier per unit, the i-th being the one returned for the i-th unit.
C2_OrderedIds ==
    /\ FailedCalls = {} =>
          /\ Len(calls) <= Len(runs)
          /\ \A i \in DOMAIN calls : calls[i].run = runs[i]
          /\ pc = "submitting" => job_ids = [i \in DOMAIN calls |-> calls[i].val]
    /\ pc = "returned" =>
          /\ FailedCalls = {}
          /\ Len(calls) = Len(runs)
          /\ Len(ret) = Len(runs)
          /\ \A i \in DOMAIN runs : ret[i] = calls[i].val

C2_Witness ==
    /\ pc = "returned"
    /\ Len(runs) = 3
    /\ ret = <<"J2", "J1", "J1">>

\* C3: the derived job names of a Model's discovered Run Units are
\* pairwise distinct.
C3_DistinctNames ==
    Constructed =>
        \A i, j \in DOMAIN runs :
            i # j => _auto_job_name(runs[i]) # _auto_job_name(runs[j])

\* C4: a root that holds the marker file directly yields exactly one Run
\* Unit, the root itself, whatever lies deeper; the subtree is not searched.
C4_RootIsTheOnlyRun ==
    (pc # "new" /\ path \in fs) =>
        /\ Constructed
        /\ runs = <<path>>
        /\ tcl_files = <<>>

C4_Witness ==
    /\ pc = "ready"
    /\ path \in fs
    /\ Cardinality(MarkedBelow) = 3

\* C5: a root without a direct marker and with k marker files in its
\* subtree yields exactly k Run Units, one per marker file's parent
\* directory, none missing and none twice.
C5_OnePerMarker ==
    (pc # "new" /\ path \notin fs) =>
        /\ Len(runs) = Cardinality(MarkedBelow)
        /\ RunSet = MarkedBelow
        /\ \A i, j \in DOMAIN runs : i # j => runs[i] # runs[j]

C5_Witness ==
    /\ pc = "ready"
    /\ path \notin fs
    /\ Len(runs) = 2
    /\ fs # MarkedBelow
    /\ \E i \in DOMAIN runs : Len(runs[i]) = Len(path) + 2

\* str(path): "/" followed by the components joined by "/"
PathStr(p) == <<47>> \o join(<<47>>, p)

\* C6 as stated: batch discovery orders the Run Units by the full path
\* string of their folders.
C6_FullStringOrder ==
    (Constructed /\ path \notin fs) =>
        \A i, j \in DOMAIN runs :
            i < j => StrLess(PathStr(runs[i]), PathStr(runs[j]))

\* C6 amended: batch discovery orders the Run Units by the component-wise
\* order of their marker files' paths, and that order is the same for every
\* order in which the filesystem enumerates the marker files.
C6_ComponentOrder ==
    (Constructed /\ path \notin fs) =>
        /\ \A i, j \in DOMAIN runs :
              i < j => PathLess(runs[i] \o <<tcl_name>>, runs[j] \o <<tcl_name>>)
        /\ \A e \in Enumerations(rglob(path)) : _collect_runs(e) = runs

C6_Witness ==
    /\ pc = "ready"
    /\ path \notin fs
    /\ Len(runs) = 3
    /\ RunsOf(tcl_files) # runs
    /\ StrLess(PathStr(runs[2]), PathStr(runs[1]))

\* C7: a root with no marker file at or below it makes construction fail
\* with the 'no runs found' error; every constructed Model has at least
\* one Run Unit.
C7_NoRunsFails ==
    /\ (pc # "new" /\ MarkedBelow = {}) =>
          /\ pc = "failed"
          /\ exc = "FileNotFoundError"
    /\ Constructed => runs # <<>>
    /\ pc = "failed" => MarkedBelow = {}

C7_Witness ==
    /\ pc = "failed"
    /\ exc = "FileNotFoundError"
    /\ Cardinality(fs) = 2

\* where the k-th of the joined components starts, less one
RECURSIVE Offset(_, _)
Offset(parts, k) ==
    IF k = 1 THEN 0 ELSE Offset(parts, k - 1) + Len(parts[k - 1]) + 1

\* name is parts[1] "_" parts[2] "_" ... "_" parts[m]
IsUnderscoreJoin(name, parts) ==
    LET m == Len(parts)
    IN /\ Len(name) = Offset(parts, m) + Len(parts[m])
       /\ \A k \in 1..m :
             /\ SubSeq(name, Offset(parts, k) + 1, Offset(parts, k) + Len(parts[k])) = parts[k]
             /\ k > 1 => name[Offset(parts, k)] = 95

\* C8: the derived name depends on the root and the run folder alone: for
\* a run folder below the root it is the components of the relative path
\* joined by underscores, for a run folder equal to the root it is the
\* root folder's own name.
C8_DerivedName ==
    ~Overridden =>
        \A i \in DOMAIN calls :
            LET run == calls[i].run
                parts == SubSeq(run, Len(path) + 1, Len(run))
            IN IF run = path
               THEN calls[i].job_name = (IF path = <<>> THEN <<>> ELSE path[Len(path)])
               ELSE IsUnderscoreJoin(calls[i].job_name, parts)

C8_Witness ==
    /\ ~Overridden
    /\ path = <<Dir_r>>
    /\ Len(calls) = 2
    /\ calls[1].run = <<Dir_r, Dir_a, Dir_b>>
    /\ calls[1].job_name = <<97, 95, 98>>
    /\ calls[2].job_name = <<97, 45, 98>>

\* C9 as stated: the forwarded job name is the caller's override for every
\* string the caller passes, and the derived name only when none is passed.
C9_OverrideAlways ==
    \A i \in DOMAIN calls :
        calls[i].job_name =
            (IF job_name.given THEN job_name.val ELSE _auto_job_name(runs[i]))

\* C9 amended: the forwarded job name is the caller's override whenever
\* the caller passes a non-empty one, and the unit's derived name when the
\* caller passes none or passes the empty string.
C9_NonEmptyOverride ==
    \A i \in DOMAIN calls :
        /\ (job_name.given /\ job_name.val # <<>>) => calls[i].job_name = job_name.val
        /\ ~job_name.given => calls[i].job_name = _auto_job_name(runs[i])
        /\ (job_name.given /\ job_name.val = <<>>) =>
              calls[i].job_name = _auto_job_name(runs[i])

C9_Witness ==
    /\ job_name.given
    /\ job_name.val = <<>>
    /\ Len(calls) = 2
    /\ calls[1].job_name = <<97, 95, 98>>
    /\ calls[2].job_name = <<97, 45, 98>>

\* C10: the derived job name is never the empty string, the fallback to
\* the root directory's own name included.
C10_NeverEmpty ==
    Constructed => \A i \in DOMAIN runs : _auto_job_name(runs[i]) # <<>>
====
